---- MODULE Spec2Model ----
(***************************************************************************)
(* Routing, command validation and the pending-command approval workflow   *)
(* of the multi-source agent: BashTool (src/src/tools/bashTool.js), Agent  *)
(* (src/unnamed/part_000), the web handlers and the terminal session       *)
(* (src/src/interface/chatInterface.js), and the document search of        *)
(* DocumentTool (src/unnamed/part_001).                                    *)
(*                                                                         *)
(* Strings are sequences of one-character strings, so that the regular     *)
(* expressions of validateCommand and the toLowerCase()/includes() calls   *)
(* of processWithFallback are computed character by character.             *)
(***************************************************************************)
EXTENDS Integers, Sequences, FiniteSets, Bags, TLC

VARIABLES
  hasValidAPI,      \* Agent.hasValidAPI, fixed by the constructor
  pendingCommands,  \* BashTool.pendingCommands: Map commandId -> entry
  now,              \* the value Date.now() returns
  inflight,         \* bag of the executeApprovedCommand calls at await execAsync
  last,             \* what the handler step that ran last returned or threw
  issuedIds,        \* history: the ids generateCommandId has returned to _call
  submitCount,      \* history: how many _call invocations stored an entry
  resolved,         \* history: ids of completed approvals and rejections
  arg,              \* input of the pure function under check
  out,              \* its result: << >> before the call, <<result>> after
  isRunning,        \* ChatInterface.isRunning
  closed,           \* exit() has closed readline and ended the process
  question,         \* callbacks of rl.question that wait for a line
  queries           \* processUserInput calls that wait for processQuery

vars == << hasValidAPI, pendingCommands, now, inflight, last, issuedIds,
           submitCount, resolved, arg, out, isRunning, closed, question,
           queries >>

termVars == << isRunning, closed, question, queries >>

storeVars == << hasValidAPI, pendingCommands, now, inflight, last, issuedIds,
                submitCount, resolved >>

None == "none"

(***************************************************************************)
(* Strings                                                                 *)
(***************************************************************************)

\* All concatenations of at most n fragments of the set F.
RECURSIVE Concats(_, _)
Concats(F, n) ==
  IF n = 0 THEN { << >> }
  ELSE LET shorter == Concats(F, n - 1)
       IN  shorter \cup { f \o s : f \in F, s \in shorter }

\* String.prototype.includes: needle occurs in hay as a contiguous substring.
Includes(hay, needle) ==
  \E i \in 0..(Len(hay) - Len(needle)) :
     \A k \in 1..Len(needle) : hay[i + k] = needle[k]

(***************************************************************************)
(* JavaScript regular expressions, as far as validateCommand uses them.    *)
(* A pattern is a sequence of tokens: a one-character string is a literal, *)
(* "\\s+", "\\s*", ".*" and "[^>]" are what they are in the source, and a      *)
(* leading "^" anchors the match at the start of the input (no m flag).    *)
(***************************************************************************)

IsSpace(c) == c \in {" ", "\t", "\n"}

IsLineTerminator(c) == c = "\n"

\* pat[i..] matches a prefix of s[j..], with backtracking over the quantifiers.
RECURSIVE MatchHere(_, _, _, _)
MatchHere(pat, i, s, j) ==
  IF i > Len(pat) THEN TRUE
  ELSE LET tok == pat[i] IN
    CASE tok = "\\s+" ->
           \E k \in (j + 1)..(Len(s) + 1) :
              /\ \A m \in j..(k - 1) : IsSpace(s[m])
              /\ MatchHere(pat, i + 1, s, k)
      [] tok = "\\s*" ->
           \E k \in j..(Len(s) + 1) :
              /\ \A m \in j..(k - 1) : IsSpace(s[m])
              /\ MatchHere(pat, i + 1, s, k)
      [] tok = ".*" ->
           \E k \in j..(Len(s) + 1) :
              /\ \A m \in j..(k - 1) : ~IsLineTerminator(s[m])
              /\ MatchHere(pat, i + 1, s, k)
      [] tok = "[^>]" ->
           /\ j <= Len(s)
           /\ s[j] # ">"
           /\ MatchHere(pat, i + 1, s, j + 1)
      [] OTHER ->
           /\ j <= Len(s)
           /\ s[j] = tok
           /\ MatchHere(pat, i + 1, s, j + 1)

\* RegExp.prototype.test
RegexTest(pat, s) ==
  IF pat # << >> /\ pat[1] = "^"
  THEN MatchHere(Tail(pat), 1, s, 1)
  ELSE \E j \in 1..(Len(s) + 1) : MatchHere(pat, 1, s, j)

(***************************************************************************)
(* BashTool.validateCommand                                                *)
(***************************************************************************)

dangerousPatterns ==
  << <<"r", "m", "\\s+", "-", "r", "f">>,
     <<"s", "u", "d", "o", "\\s+">>,
     <<"c", "h", "m", "o", "d", "\\s+", "7", "7", "7">>,
     <<"c", "h", "o", "w", "n", "\\s+">>,
     <<"p", "a", "s", "s", "w", "d">>,
     <<"u", "s", "e", "r", "a", "d", "d">>,
     <<"u", "s", "e", "r", "d", "e", "l">>,
     <<"g", "r", "o", "u", "p", "a", "d", "d">>,
     <<"g", "r", "o", "u", "p", "d", "e", "l">>,
     <<"m", "o", "u", "n", "t">>,
     <<"u", "m", "o", "u", "n", "t">>,
     <<"f", "d", "i", "s", "k">>,
     <<"m", "k", "f", "s">>,
     <<"d", "d", "\\s+", "i", "f", "=">>,
     <<"n", "c", "\\s+">>,
     <<"n", "e", "t", "c", "a", "t">>,
     <<"w", "g", "e", "t", "\\s+", ".*", "-", "O", "\\s+", "/", "d", "e", "v", "/", "s", "h", "m">>,
     <<"c", "u", "r", "l", "\\s+", ".*", "-", "o", "\\s+", "/", "d", "e", "v", "/", "s", "h", "m">>,
     <<">", "\\s*", "/", "e", "t", "c", "/">>,
     <<">", ">", "\\s*", "/", "e", "t", "c", "/">>,
     <<"c", "a", "t", "\\s+", ">", ".*", "/", "e", "t", "c", "/">>,
     <<"e", "c", "h", "o", "\\s+", ".*", ">", "\\s*", "/", "e", "t", "c", "/">> >>

safeCommands ==
  << <<"^", "c", "u", "r", "l", "\\s+">>,
     <<"^", "w", "g", "e", "t", "\\s+">>,
     <<"^", "p", "i", "n", "g", "\\s+">>,
     <<"^", "n", "s", "l", "o", "o", "k", "u", "p", "\\s+">>,
     <<"^", "d", "i", "g", "\\s+">>,
     <<"^", "d", "a", "t", "e">>,
     <<"^", "u", "p", "t", "i", "m", "e">>,
     <<"^", "w", "h", "o", "a", "m", "i">>,
     <<"^", "p", "w", "d">>,
     <<"^", "l", "s", "\\s+">>,
     <<"^", "c", "a", "t", "\\s+">>,
     <<"^", "g", "r", "e", "p", "\\s+">>,
     <<"^", "h", "e", "a", "d", "\\s+">>,
     <<"^", "t", "a", "i", "l", "\\s+">>,
     <<"^", "w", "c", "\\s+">>,
     <<"^", "s", "o", "r", "t", "\\s+">>,
     <<"^", "u", "n", "i", "q", "\\s+">>,
     <<"^", "c", "u", "t", "\\s+">>,
     <<"^", "a", "w", "k", "\\s+">>,
     <<"^", "s", "e", "d", "\\s+">>,
     <<"^", "f", "i", "n", "d", "\\s+">>,
     <<"^", "w", "h", "i", "c", "h", "\\s+">>,
     <<"^", "w", "h", "e", "r", "e", "i", "s", "\\s+">>,
     <<"^", "p", "s", "\\s+">>,
     <<"^", "t", "o", "p", "\\s*">>,
     <<"^", "d", "f", "\\s+">>,
     <<"^", "d", "u", "\\s+">>,
     <<"^", "f", "r", "e", "e", "\\s*">>,
     <<"^", "u", "n", "a", "m", "e", "\\s*">>,
     <<"^", "h", "o", "s", "t", "n", "a", "m", "e">>,
     <<"^", "i", "d", "\\s*">>,
     <<"^", "g", "r", "o", "u", "p", "s", "\\s*">>,
     <<"^", "e", "n", "v", "\\s*">>,
     <<"^", "p", "r", "i", "n", "t", "e", "n", "v", "\\s*">>,
     <<"^", "h", "i", "s", "t", "o", "r", "y", "\\s*">>,
     <<"^", "e", "c", "h", "o", "\\s+", "[^>]">>,
     <<"^", "p", "r", "i", "n", "t", "f", "\\s+">> >>

\* The index of the first pattern of pats that matches s, 0 when none does
\* (the for loop of validateCommand: the first match returns).
FirstMatch(pats, s) ==
  LET hits == { i \in DOMAIN pats : RegexTest(pats[i], s) }
  IN  IF hits = {} THEN 0 ELSE CHOOSE i \in hits : \A k \in hits : i <= k

DangerousReason == "Command contains potentially dangerous pattern"

NotAllowedReason == "Command not in the list of allowed safe commands"

\* A slip: the allow list is consulted first, so an allowed prefix hides a
\* dangerous pattern.
validateCommandAllowFirst(command) ==
  IF \E i \in DOMAIN safeCommands : RegexTest(safeCommands[i], command)
  THEN [isValid |-> TRUE, reason |-> None, pattern |-> << >>]
  ELSE IF FirstMatch(dangerousPatterns, command) # 0
  THEN [isValid |-> FALSE, reason |-> DangerousReason,
        pattern |-> dangerousPatterns[FirstMatch(dangerousPatterns, command)]]
  ELSE [isValid |-> FALSE, reason |-> NotAllowedReason, pattern |-> << >>]

\* A slip: the allow patterns lose their ^ anchor, so an allowed word
\* anywhere in the command makes it safe.
validateCommandUnanchored(command) ==
  LET d == FirstMatch(dangerousPatterns, command)
      isSafe == \E i \in DOMAIN safeCommands :
                   RegexTest(Tail(safeCommands[i]), command)
  IN  IF d # 0
      THEN [isValid |-> FALSE, reason |-> DangerousReason,
            pattern |-> dangerousPatterns[d]]
      ELSE IF ~isSafe
      THEN [isValid |-> FALSE, reason |-> NotAllowedReason, pattern |-> << >>]
      ELSE [isValid |-> TRUE, reason |-> None, pattern |-> << >>]

validateCommand(command) ==
  LET d == FirstMatch(dangerousPatterns, command)
      isSafe == \E i \in DOMAIN safeCommands :
                   RegexTest(safeCommands[i], command)
  IN  IF d # 0
      THEN [isValid |-> FALSE, reason |-> DangerousReason,
            pattern |-> dangerousPatterns[d]]
      ELSE IF ~isSafe
      THEN [isValid |-> FALSE, reason |-> NotAllowedReason, pattern |-> << >>]
      ELSE [isValid |-> TRUE, reason |-> None, pattern |-> << >>]

(***************************************************************************)
(* Candidate commands for the validator: every concatenation of at most    *)
(* MaxCmdParts fragments.                                                  *)
(***************************************************************************)

MaxCmdParts == 2

CommandParts ==
  { <<"d", "a", "t", "e">>,
    <<"c", "a", "t", " ">>,
    <<"c", "u", "r", "l", " ">>,
    <<"e", "c", "h", "o", " ">>,
    <<"r", "m", " ", "-", "r", "f", " ">>,
    <<"s", "u", "d", "o", " ">>,
    <<"/", "e", "t", "c", "/", "p", "a", "s", "s", "w", "d">>,
    <<">", " ", "/", "e", "t", "c", "/", "x">>,
    <<"-", "o", " ", "/", "d", "e", "v", "/", "s", "h", "m">>,
    <<"x", "\n">>,
    <<"l", "s">> }

Commands == Concats(CommandParts, MaxCmdParts)

(***************************************************************************)
(* The store before any request: the BashTool constructor.                 *)
(***************************************************************************)

NoId == << >>

NoCommand == << >>

NoOp == [op |-> None, id |-> NoId, res |-> None, command |-> NoCommand,
         description |-> None, via |-> None, fault |-> None,
         pending |-> << >>]

MaxCalls == 2

InitStore ==
  /\ hasValidAPI \in BOOLEAN
  /\ pendingCommands = << >>
  /\ now = 1
  /\ inflight = EmptyBag
  /\ last = NoOp
  /\ issuedIds = {}
  /\ submitCount = 0
  /\ resolved = {}
  /\ isRunning = FALSE
  /\ closed = FALSE
  /\ question = 0
  /\ queries = 0

(***************************************************************************)
(* The validator on its own: validateCommand applied to one command.       *)
(***************************************************************************)

InitValidate ==
  /\ InitStore
  /\ arg \in Commands
  /\ out = << >>

Validate ==
  /\ out = << >>
  /\ out' = << validateCommand(arg) >>
  /\ UNCHANGED << arg, storeVars, termVars >>

NextValidate == Validate

SpecValidate == InitValidate /\ [][NextValidate]_vars

MatchesDeny(command) ==
  \E i \in DOMAIN dangerousPatterns : RegexTest(dangerousPatterns[i], command)

MatchesAllow(command) ==
  \E i \in DOMAIN safeCommands : RegexTest(safeCommands[i], command)

\* C6: a command that matches any deny pattern is never valid, whether or
\* not it also matches an allow pattern, and the reason names the first deny
\* pattern that matched.
DenyOverridesAllow ==
  (out # << >> /\ MatchesDeny(arg)) =>
     /\ out[1].isValid = FALSE
     /\ out[1].reason = DangerousReason
     /\ RegexTest(out[1].pattern, arg)

\* A command matching both lists has been validated and was denied.
DenyOverridesAllowWitness ==
  /\ out # << >>
  /\ MatchesDeny(arg)
  /\ MatchesAllow(arg)
  /\ out[1].isValid = FALSE

\* C7: a command that matches no deny pattern is valid exactly when it
\* matches an allow pattern; when it matches none the reason is the
\* not-allowed one, never the dangerous-pattern one.
AllowDecidesWhenNoDeny ==
  (out # << >> /\ ~MatchesDeny(arg)) =>
     /\ out[1].isValid = MatchesAllow(arg)
     /\ (~MatchesAllow(arg) => out[1].reason = NotAllowedReason)
     /\ (MatchesAllow(arg) => out[1].reason = None)

\* Both outcomes occur: some deny-free command was found not allowed.
AllowDecidesWhenNoDenyWitness ==
  /\ out # << >>
  /\ ~MatchesDeny(arg)
  /\ ~MatchesAllow(arg)
  /\ out[1].isValid = FALSE
  /\ out[1].reason = NotAllowedReason
  /\ arg # << >>


(***************************************************************************)
(* Agent.processWithFallback: keyword routing and the tool input           *)
(***************************************************************************)

UpperChars ==
  << "A", "B", "C", "D", "E", "F", "G", "H", "I", "J", "K", "L", "M", "N",
     "O", "P", "Q", "R", "S", "T", "U", "V", "W", "X", "Y", "Z", "Ú" >>

LowerChars ==
  << "a", "b", "c", "d", "e", "f", "g", "h", "i", "j", "k", "l", "m", "n",
     "o", "p", "q", "r", "s", "t", "u", "v", "w", "x", "y", "z", "ú" >>

\* String.prototype.toLowerCase, one character at a time.
LowerChar(c) ==
  IF \E i \in DOMAIN UpperChars : UpperChars[i] = c
  THEN LowerChars[CHOOSE i \in DOMAIN UpperChars : UpperChars[i] = c]
  ELSE c

ToLower(s) == [i \in DOMAIN s |-> LowerChar(s[i])]

IncludesAny(hay, needles) == \E n \in needles : Includes(hay, n)

TimeKeywords ==
  { <<"h", "o", "r", "a">>,
    <<"t", "i", "m", "e">>,
    <<"d", "a", "t", "a">>,
    <<"d", "a", "t", "e">>  }

MusicKeywords ==
  { <<"a", "r", "t", "i", "s", "t", "a">>,
    <<"a", "l", "b", "u", "m">>,
    <<"m", "ú", "s", "i", "c", "a">>,
    <<"m", "u", "s", "i", "c">>,
    <<"t", "r", "a", "c", "k">>,
    <<"v", "e", "n", "d", "a">>,
    <<"s", "a", "l", "e">>  }

DocumentKeywords ==
  { <<"e", "c", "o", "n", "o", "m", "i", "a">>,
    <<"e", "c", "o", "n", "o", "m", "i", "c", "s">>,
    <<"l", "i", "v", "r", "o">>,
    <<"b", "o", "o", "k">>,
    <<"d", "o", "c", "u", "m", "e", "n", "t", "o">>,
    <<"d", "o", "c", "u", "m", "e", "n", "t">>  }

CountKeywords ==
  { <<"q", "u", "a", "n", "t", "o", "s">>,
    <<"h", "o", "w", " ", "m", "a", "n", "y">>  }

ArtistKeywords ==
  { <<"a", "r", "t", "i", "s", "t", "a">>,
    <<"a", "r", "t", "i", "s", "t">>  }

AlbumKeywords ==
  { <<"a", "l", "b", "u", "m">>  }

DateCommand == <<"d", "a", "t", "e">>

DateDescription == "Get current date and time"

JsonInput(command, description) ==
  [kind |-> "json", command |-> command, description |-> description]

SqlInput(statement) ==
  [kind |-> "sql", command |-> NoCommand, description |-> statement]

TextInput(text) ==
  [kind |-> "text", command |-> text, description |-> None]

\* The else-if chain of lines 143-172: the first group with a keyword in the
\* lower-cased query names the tool.
SelectTool(lowerQuery) ==
  IF IncludesAny(lowerQuery, TimeKeywords) THEN "bash_command"
  ELSE IF IncludesAny(lowerQuery, MusicKeywords) THEN "sqlite_database"
  ELSE IF IncludesAny(lowerQuery, DocumentKeywords) THEN "document_search"
  ELSE "document_search"

\* The switch of lines 177-217.
GenerateInput(toolName, query, lowerQuery) ==
  CASE toolName = "sqlite_database" ->
         IF IncludesAny(lowerQuery, CountKeywords)
         THEN SqlInput("SELECT COUNT(*) as count FROM Artist")
         ELSE IF IncludesAny(lowerQuery, ArtistKeywords)
         THEN SqlInput("SELECT * FROM Artist LIMIT 10")
         ELSE IF IncludesAny(lowerQuery, AlbumKeywords)
         THEN SqlInput("SELECT * FROM Album LIMIT 10")
         ELSE SqlInput("SELECT * FROM Artist LIMIT 5")
    [] toolName = "document_search" -> TextInput(query)
    [] toolName = "bash_command" -> JsonInput(DateCommand, DateDescription)
    [] OTHER -> TextInput(query)

\* A slip: the music group is tested before the time group.
FallbackRouteMusicFirst(query) ==
  LET lowerQuery == ToLower(query)
      toolName == IF IncludesAny(lowerQuery, MusicKeywords)
                  THEN "sqlite_database"
                  ELSE SelectTool(lowerQuery)
  IN  [toolName |-> toolName,
       toolInput |-> GenerateInput(toolName, query, lowerQuery)]

\* Lines 137-217 of processWithFallback: the tool and the input it is given.
FallbackRoute(query) ==
  LET lowerQuery == ToLower(query)
      toolName == SelectTool(lowerQuery)
  IN  [toolName |-> toolName,
       toolInput |-> GenerateInput(toolName, query, lowerQuery)]

(***************************************************************************)
(* Queries: the reference queries and every concatenation of at most       *)
(* MaxQueryWords fragments.                                                *)
(***************************************************************************)

MaxQueryWords == 2

WhatTimeIsIt == <<"w", "h", "a", "t", " ", "t", "i", "m", "e", " ", "i", "s", " ", "i", "t">>

HowManyArtists == <<"h", "o", "w", " ", "m", "a", "n", "y", " ", "a", "r", "t", "i", "s", "t", "s">>

WhatIsCapitalism == <<"w", "h", "a", "t", " ", "i", "s", " ", "c", "a", "p", "i", "t", "a", "l", "i", "s", "m">>

QueryWords ==
  { <<"T", "I", "M", "E", " ">>,
    <<"H", "o", "r", "a">>,
    <<" ", "d", "a", "t", "a">>,
    <<"M", "u", "s", "i", "c">>,
    <<"a", "r", "t", "i", "s", "t">>,
    <<"a", " ">>,
    <<"s", "a", "l", "e">>,
    <<"B", "O", "O", "K", " ">>,
    <<"e", "c", "o", "n", "o", "m", "i", "c", "s">>,
    <<"z", "z", "z", " ">>,
    <<"h", "o", "w", " ", "m", "a", "n", "y", " ">>,
    <<"M", "Ú", "S", "I", "C", "A">>  }

Queries ==
  {WhatTimeIsIt, HowManyArtists, WhatIsCapitalism}
    \cup Concats(QueryWords, MaxQueryWords)

InitRoute ==
  /\ InitStore
  /\ arg \in Queries
  /\ out = << >>

Route ==
  /\ out = << >>
  /\ out' = << FallbackRoute(arg) >>
  /\ UNCHANGED << arg, storeVars, termVars >>

NextRoute == Route

SpecRoute == InitRoute /\ [][NextRoute]_vars

\* Two characters that differ at most in case.
SameLetter(a, b) ==
  \/ a = b
  \/ \E i \in DOMAIN UpperChars : {a, b} = {UpperChars[i], LowerChars[i]}

\* keyword occurs in query as a contiguous substring, case ignored.
Mentions(query, keyword) ==
  \E i \in 0..(Len(query) - Len(keyword)) :
     \A k \in 1..Len(keyword) : SameLetter(query[i + k], keyword[k])

MentionsAny(query, keywords) == \E kw \in keywords : Mentions(query, kw)

\* C9: the reference queries: "what time is it" selects bash_command, "how
\* many artists" selects sqlite_database with the count statement, "what is
\* capitalism" selects document_search, and a query with no recognized
\* keyword selects document_search.
ReferenceQueriesRouted ==
  out # << >> =>
    /\ arg = WhatTimeIsIt => out[1].toolName = "bash_command"
    /\ arg = HowManyArtists =>
         /\ out[1].toolName = "sqlite_database"
         /\ out[1].toolInput = SqlInput("SELECT COUNT(*) as count FROM Artist")
    /\ arg = WhatIsCapitalism => out[1].toolName = "document_search"
    /\ ~MentionsAny(arg, TimeKeywords \cup MusicKeywords \cup DocumentKeywords)
         => out[1].toolName = "document_search"

\* C10: the first keyword group, in the order time/date, music, documents,
\* that the query mentions (as a substring, case ignored) names the tool;
\* with no music or time keyword the tool is document_search.
FirstKeywordGroupWins ==
  out # << >> =>
    out[1].toolName =
      IF MentionsAny(arg, TimeKeywords) THEN "bash_command"
      ELSE IF MentionsAny(arg, MusicKeywords) THEN "sqlite_database"
      ELSE "document_search"

\* An upper-case time keyword next to a music keyword was routed to bash.
FirstKeywordGroupWinsWitness ==
  /\ out # << >>
  /\ MentionsAny(arg, TimeKeywords)
  /\ ~IncludesAny(arg, TimeKeywords)
  /\ MentionsAny(arg, MusicKeywords)
  /\ out[1].toolName = "bash_command"

(***************************************************************************)
(* BashTool.pendingCommands: a JavaScript Map, kept as the sequence of its *)
(* entries in insertion order, one entry per key.                          *)
(***************************************************************************)

MapHas(m, id) == \E i \in DOMAIN m : m[i].id = id

MapGet(m, id) == m[CHOOSE i \in DOMAIN m : m[i].id = id]

\* A slip: set adds an entry even when the key is present.
MapSetAppend(m, id, entry) == Append(m, entry)

\* Map.prototype.set: a present key keeps its place and takes the new value.
MapSet(m, id, entry) ==
  IF MapHas(m, id)
  THEN [i \in DOMAIN m |-> IF m[i].id = id THEN entry ELSE m[i]]
  ELSE Append(m, entry)

\* Map.prototype.delete
MapDelete(m, id) == SelectSeq(m, LAMBDA e : e.id # id)

\* BashTool.getPendingCommands: the entries in Map iteration order.
getPendingCommands(m) ==
  [i \in DOMAIN m |->
     [id |-> m[i].id, command |-> m[i].command,
      description |-> m[i].description, timestamp |-> m[i].timestamp]]

(***************************************************************************)
(* BashTool.generateCommandId: Date.now() and nine base-36 digits of       *)
(* Math.random().  The random part is one of MaxSuffix values.             *)
(***************************************************************************)

MaxTime == 2

MaxSuffix == 2

Suffixes == 1..MaxSuffix

generateCommandId(time, random) == << time, random >>

(***************************************************************************)
(* BashTool._call                                                          *)
(***************************************************************************)

Malformed == [kind |-> "malformed", command |-> NoCommand, description |-> None]

\* A slip: the command is stored without being validated.
CallUnvalidated(m, input, id, time) ==
  IF input.kind # "json"
  THEN [fault |-> "InvalidInputFormat", pending |-> m, id |-> NoId,
        command |-> NoCommand, description |-> None]
  ELSE [fault |-> None,
        pending |-> MapSet(m, id, [id |-> id, command |-> input.command,
                                   description |-> input.description,
                                   timestamp |-> time]),
        id |-> id, command |-> input.command,
        description |-> input.description]

\* A slip: the entry is stored before the command is validated.
CallStoreFirst(m, input, id, time) ==
  IF input.kind # "json"
  THEN [fault |-> "InvalidInputFormat", pending |-> m, id |-> NoId,
        command |-> NoCommand, description |-> None]
  ELSE [fault |-> IF validateCommand(input.command).isValid THEN None
                  ELSE "ValidationDenied",
        pending |-> MapSet(m, id, [id |-> id, command |-> input.command,
                                   description |-> input.description,
                                   timestamp |-> time]),
        id |-> IF validateCommand(input.command).isValid THEN id ELSE NoId,
        command |-> input.command, description |-> input.description]

IdCommand == <<"i", "d">>

RmCommand == <<"r", "m", " ", "-", "r", "f", " ", "/">>

\* The verdicts of validateCommand on the commands the model proposes,
\* computed once; any other command is validated when it comes.
ProposedCommands == { DateCommand, IdCommand, RmCommand }

ProposedVerdicts == [c \in ProposedCommands |-> validateCommand(c)]

Validation(command) ==
  IF command \in ProposedCommands THEN ProposedVerdicts[command]
  ELSE validateCommand(command)

\* _call on the Map m, when generateCommandId returns `id` and new Date()
\* of line 38 is `time`: the fault thrown (None when the approval request is
\* returned) and the Map afterwards.
Call(m, input, id, time) ==
  IF input.kind # "json"
  THEN [fault |-> "InvalidInputFormat", pending |-> m, id |-> NoId,
        command |-> NoCommand, description |-> None]
  ELSE IF ~Validation(input.command).isValid
  THEN [fault |-> "ValidationDenied", pending |-> m, id |-> NoId,
        command |-> input.command, description |-> input.description]
  ELSE [fault |-> None,
        pending |-> MapSet(m, id, [id |-> id, command |-> input.command,
                                   description |-> input.description,
                                   timestamp |-> time]),
        id |-> id, command |-> input.command,
        description |-> input.description]

(***************************************************************************)
(* Agent.processQuery                                                      *)
(***************************************************************************)

MaxSubmits == 3

MusicQuery == <<"M", "u", "s", "i", "c">>

\* What the language model may propose as input of bash_command: no JSON,
\* a command the validator accepts, or one it denies.
ProposedInputs ==
  { Malformed,
    JsonInput(IdCommand, "Show the user"),
    JsonInput(RmCommand, "Clean up") }

SystemQueries == { WhatTimeIsIt, HowManyArtists, MusicQuery }

\* The routes of the model's queries, computed once.
SystemRoutes == [q \in SystemQueries |-> FallbackRoute(q)]

ToolNames == { "sqlite_database", "document_search", "bash_command" }

\* A slip: the catch of processQuery lets the failure of a tool through.
ProcessQueryRethrows(fault) ==
  IF fault = None THEN "response"
  ELSE IF fault = "ToolFailure" THEN "thrown"
  ELSE "error"

\* Lines 84-92: what processQuery hands to its caller when the run ended in
\* `fault`: the response of the run, or, from the catch, the string
\* "Error processing query: ..."; "thrown" would be a fault that escapes.
ProcessQueryResult(fault) ==
  IF fault = None THEN "response" ELSE "error"

\* What a processQuery run leaves behind: the Map, the clock as _call read
\* it last, the counters of the ids handed out, and the response (an error description when fault is set).
Respond(via, fault, called) ==
  /\ called.id # NoId => submitCount < MaxSubmits
  /\ pendingCommands' = called.pending
  /\ issuedIds' = IF called.id # NoId THEN issuedIds \cup {called.id}
                  ELSE issuedIds
  /\ submitCount' = IF called.id # NoId THEN submitCount + 1 ELSE submitCount
  /\ now' = IF called.id # NoId
            THEN MapGet(called.pending, called.id).timestamp
            ELSE now
  /\ last' = [op |-> "processQuery", id |-> called.id,
              res |-> ProcessQueryResult(fault),
              command |-> called.command,
              description |-> called.description, via |-> via,
              fault |-> fault, pending |-> << >>]

\* A run that throws before any tool is called.
NotCalled == [fault |-> None, pending |-> pendingCommands, id |-> NoId,
              command |-> NoCommand, description |-> None]

\* Math.random() in generateCommandId: a value it has returned before in
\* this millisecond, or a new one; the values are interchangeable, and a new
\* one is named by the next number.
RandomDraws ==
  { r \in Suffixes : r <= 1 + Cardinality({id \in issuedIds : id[1] = now}) }

\* new Date() of line 38 reads the clock after Date.now() of line 140 did:
\* in the same millisecond or in the next one.
Stamps == { t \in {now, now + 1} : t <= MaxTime }

\* tool.call(toolInput) and the rest of the run, which ends in one of the
\* faults of `endings` (None: the response is returned): _call for
\* bash_command, with the random part of the id and the time stamp drawn,
\* and for the two other tools either their output or a throw.
CallTool(via, toolName, toolInput, endings) ==
  IF toolName = "bash_command"
  THEN IF Call(pendingCommands, toolInput, NoId, now).fault # None
       THEN LET refused == Call(pendingCommands, toolInput, NoId, now)
            IN  Respond(via, refused.fault, refused)
       ELSE \E r \in RandomDraws, stamp \in Stamps, fault \in endings :
              Respond(via, fault,
                      Call(pendingCommands, toolInput,
                           generateCommandId(now, r), stamp))
  ELSE \/ Respond(via, "ToolFailure", NotCalled)
       \/ \E fault \in endings : Respond(via, fault, NotCalled)

\* processWithFallback: route the query, call the tool, format its output
\* (generateSimpleResponse does not throw).
processWithFallback(query) ==
  LET route == SystemRoutes[query]
  IN  CallTool("fallback", route.toolName, route.toolInput, {None})

\* processWithLLM: analysis, input generation, tool lookup, tool call and
\* synthesis, in this order; the first step that throws ends the run.  Each
\* call of the language model may fail (the service is unreachable), and its
\* analysis may be no JSON or name no tool.
processWithLLM ==
  \/ Respond("llm", "UpstreamUnavailable", NotCalled)
  \/ Respond("llm", "ParseError", NotCalled)
  \/ \E tool \in ToolNames \cup {"unknown_tool"} :
       \/ Respond("llm", "UpstreamUnavailable", NotCalled)
       \/ IF tool \notin ToolNames
          THEN Respond("llm", "ToolNotFound", NotCalled)
          ELSE \E toolInput \in (IF tool = "bash_command" THEN ProposedInputs
                                 ELSE {TextInput(<< >>)}) :
                 CallTool("llm", tool, toolInput,
                          {None, "UpstreamUnavailable"})

\* Agent.processQuery: the path the constructor configured; whatever is
\* thrown comes back as the "Error processing query" response.
processQuery ==
  /\ IF hasValidAPI
     THEN processWithLLM
     ELSE \E query \in SystemQueries : processWithFallback(query)
  /\ UNCHANGED << hasValidAPI, inflight, resolved, arg, out >>

\* WebInterface.handleChat
ProcessQuery == processQuery /\ UNCHANGED termVars

\* Date.now() moves on between two requests.  Only the order of the clock
\* values matters, so a millisecond in which no id was generated is not
\* told apart from the one before it.
Tick ==
  /\ now < MaxTime
  /\ \E id \in issuedIds : id[1] = now
  /\ now' = now + 1
  /\ UNCHANGED << hasValidAPI, pendingCommands, inflight, last, issuedIds,
                  submitCount, resolved, arg, out, termVars >>

(***************************************************************************)
(* BashTool.executeApprovedCommand, rejectCommand, getPendingCommands, as  *)
(* the web interface's handlers call them.  A request may arrive while     *)
(* another approval is suspended at await execAsync.                       *)
(***************************************************************************)

Outcome(op, id, res, command) ==
  [op |-> op, id |-> id, res |-> res, command |-> command,
   description |-> None, via |-> None, fault |-> None, pending |-> << >>]

\* A slip: the catch branch forgets to delete the entry.
StoreAfterExecLeaky(m, id, execOk) ==
  IF execOk THEN MapDelete(m, id) ELSE m

\* Lines 166 and 177: the entry is deleted whether execAsync resolved or
\* rejected.
StoreAfterExec(m, id, execOk) ==
  IF execOk THEN MapDelete(m, id) ELSE MapDelete(m, id)

\* The commandId of an approve or reject request: an id that has been handed
\* out, or one that never is (generateCommandId returns no id of time 0).
UnknownId == << 0, 0 >>

RequestIds == issuedIds \cup {UnknownId}

\* executeApprovedCommand, lines 154-163: the lookup, and on a hit the
\* start of the subprocess with the stored command; the call then waits for
\* execAsync.
executeApprovedCommand(id) ==
  /\ IF ~MapHas(pendingCommands, id)
     THEN /\ last' = Outcome("approve", id, "NotFound", NoCommand)
          /\ UNCHANGED inflight
     ELSE LET call == [id |-> id,
                       command |-> MapGet(pendingCommands, id).command]
          IN  /\ BagCardinality(inflight) < MaxCalls
              /\ inflight' = inflight (+) SetToBag({call})
              /\ last' = Outcome("approve", id, "running", call.command)
  /\ UNCHANGED << hasValidAPI, pendingCommands, now, issuedIds, submitCount,
                  resolved, arg, out >>

\* WebInterface.handleApproval up to the await
ApproveStart ==
  \E id \in RequestIds : executeApprovedCommand(id) /\ UNCHANGED termVars

\* executeApprovedCommand, lines 164-180, for one waiting call: execAsync
\* settles (exit 0, or non-zero exit, timeout or output overflow), the entry
\* is deleted and the call returns or throws.
execSettled(call) ==
  /\ BagIn(call, inflight)
  /\ \E execOk \in BOOLEAN :
       /\ pendingCommands' = StoreAfterExec(pendingCommands, call.id, execOk)
       /\ last' = Outcome("approve", call.id,
                          IF execOk THEN "ok" ELSE "ExecutionFailure",
                          call.command)
  /\ inflight' = inflight (-) SetToBag({call})
  /\ resolved' = resolved \cup {call.id}
  /\ UNCHANGED << hasValidAPI, now, issuedIds, submitCount, arg, out >>

\* WebInterface.handleApproval after the await, one waiting request
ApproveFinishOf(call) == execSettled(call) /\ UNCHANGED termVars

ApproveFinish == \E call \in BagToSet(inflight) : ApproveFinishOf(call)

\* BashTool.rejectCommand
rejectCommand(id) ==
  /\ IF ~MapHas(pendingCommands, id)
     THEN /\ last' = Outcome("reject", id, "NotFound", NoCommand)
          /\ UNCHANGED << pendingCommands, resolved >>
     ELSE /\ pendingCommands' = MapDelete(pendingCommands, id)
          /\ resolved' = resolved \cup {id}
          /\ last' = Outcome("reject", id, "ok",
                             MapGet(pendingCommands, id).command)
  /\ UNCHANGED << hasValidAPI, now, inflight, issuedIds, submitCount,
                  arg, out >>

\* WebInterface.handleRejection
Reject == \E id \in RequestIds : rejectCommand(id) /\ UNCHANGED termVars

\* Agent.getPendingCommands: what the caller is handed
listPending ==
  /\ last' = [Outcome("list", NoId, "ok", NoCommand)
                EXCEPT !.pending = getPendingCommands(pendingCommands)]
  /\ UNCHANGED << hasValidAPI, pendingCommands, now, inflight, issuedIds,
                  submitCount, resolved, arg, out >>

\* WebInterface.handlePending
List == listPending /\ UNCHANGED termVars

Init ==
  /\ InitStore
  /\ arg = << >>
  /\ out = << >>

Next ==
  \/ ProcessQuery
  \/ Tick
  \/ ApproveStart
  \/ ApproveFinish
  \/ Reject
  \/ List

Spec == Init /\ [][Next]_vars

(***************************************************************************)
(* The approval workflow                                                   *)
(***************************************************************************)

\* C1: a command starts running only in a step of an approve call that
\* names the id of a pending entry holding that command, the id is one that
\* _call handed out, and validateCommand accepts the command; no other step
\* starts a command.
OnlyApprovedValidatedCommandsRun ==
  [][\A call \in BagToSet(inflight') :
       CopiesIn(call, inflight') > CopiesIn(call, inflight) =>
          /\ validateCommand(call.command).isValid
          /\ \E i \in DOMAIN pendingCommands :
                /\ pendingCommands[i].id = call.id
                /\ pendingCommands[i].command = call.command
          /\ call.id \in issuedIds
          /\ last' = Outcome("approve", call.id, "running", call.command)]_vars

\* An approved command is running while a denied proposal has been refused.
OnlyApprovedValidatedCommandsRunWitness ==
  /\ inflight # EmptyBag
  /\ last.op = "processQuery"
  /\ last.fault = "ValidationDenied"

\* C2: a reject that arrives while an approval of the same id is waiting for
\* its subprocess observes NotFound (the approval has found the entry and
\* started the command, so it is the one that wins).
RejectDuringApprovalObservesNotFound ==
  (last.op = "reject" /\ \E call \in BagToSet(inflight) : call.id = last.id)
     => last.res = "NotFound"

\* C3: when an approve call that found its entry has returned or thrown,
\* the Map holds no entry for its id and getPendingCommands lists none.
ApprovedEntryGone ==
  (last.op = "approve" /\ last.res \in {"ok", "ExecutionFailure"}) =>
     /\ ~MapHas(pendingCommands, last.id)
     /\ \A i \in DOMAIN getPendingCommands(pendingCommands) :
           getPendingCommands(pendingCommands)[i].id # last.id

\* An approval has failed while another entry is still pending.
ApprovedEntryGoneWitness ==
  /\ last.op = "approve"
  /\ last.res = "ExecutionFailure"
  /\ pendingCommands # << >>

\* C4: once an approve or a reject of an id has completed, no step makes
\* the id pending again, no later reject of it succeeds and no later approve
\* of it finds an entry.
ResolvedIdStaysNotFound ==
  [][\A id \in resolved :
       /\ ~MapHas(pendingCommands', id)
       /\ (last' # last /\ last'.op = "reject" /\ last'.id = id)
            => last'.res = "NotFound"
       /\ (last' # last /\ last'.op = "approve" /\ last'.id = id)
            => last'.res # "running"]_vars

\* C5: every id _call stores an entry under is new: as many distinct ids
\* have been handed out as entries have been stored.
IdsNeverReused == Cardinality(issuedIds) = submitCount

\* C8: a query during which the language model is unreachable is answered
\* by the fallback route, not by an error response.
ClassifierFailureFallsBack ==
  (last.op = "processQuery" /\ last.fault = "UpstreamUnavailable") =>
     /\ last.via = "fallback"
     /\ last.res = "response"

\* C15: a getPendingCommands call that comes right after a _call that
\* stored an entry lists exactly one entry under the id _call returned, and
\* that entry carries the command and the description submitted.
SubmitThenList ==
  [][(last.op = "processQuery" /\ last.id # NoId /\ last'.op = "list") =>
       LET listed == last'.pending
       IN  /\ Cardinality({ i \in DOMAIN listed : listed[i].id = last.id }) = 1
           /\ \A i \in DOMAIN listed :
                 listed[i].id = last.id =>
                    /\ listed[i].command = last.command
                    /\ listed[i].description = last.description]_vars

\* Two commands were submitted, the second under the id of the first, and
\* the list shows one entry.
SubmitThenListWitness ==
  /\ last.op = "list"
  /\ submitCount = 2
  /\ resolved = {}
  /\ Len(last.pending) = 1

\* C16: a getPendingCommands call returns the entries that are pending, each
\* once, in the order of their creation time stamps, and leaves the Map as
\* it was.
ListedByCreationTime ==
  [][(last'.op = "list" /\ last' # last) =>
       LET listed == last'.pending
       IN  /\ pendingCommands' = pendingCommands
           /\ Len(listed) = Len(pendingCommands)
           /\ \A i \in DOMAIN pendingCommands :
                 \E j \in DOMAIN listed :
                    /\ listed[j].id = pendingCommands[i].id
                    /\ listed[j].command = pendingCommands[i].command
                    /\ listed[j].description = pendingCommands[i].description
                    /\ listed[j].timestamp = pendingCommands[i].timestamp
           /\ \A i, j \in DOMAIN listed :
                 i < j => listed[i].timestamp <= listed[j].timestamp]_vars

\* C18: a processQuery run whose _call failed on malformed JSON or on a
\* denied command answers with the error and leaves the Map as it was, and
\* an entry enters the Map only in a run whose command validateCommand
\* accepts.
FailedSubmitLeavesStore ==
  [][/\ (last'.op = "processQuery"
           /\ last'.fault \in {"InvalidInputFormat", "ValidationDenied"})
        => /\ pendingCommands' = pendingCommands
           /\ last'.res = "error"
           /\ last'.id = NoId
     /\ \A i \in DOMAIN pendingCommands' :
           (\A k \in DOMAIN pendingCommands :
               pendingCommands[k] # pendingCommands'[i])
           => /\ last'.op = "processQuery"
              /\ last'.id = pendingCommands'[i].id
              /\ last'.fault \notin {"InvalidInputFormat", "ValidationDenied"}
              /\ Validation(pendingCommands'[i].command).isValid]_vars

\* Malformed input was refused while an entry was pending.
FailedSubmitLeavesStoreWitness ==
  /\ last.op = "processQuery"
  /\ last.fault = "InvalidInputFormat"
  /\ pendingCommands # << >>

\* C19: an approve call starts the command of an id only when no other
\* approve call of that id is waiting for its subprocess: the stored command
\* is started by one approve call, and every other one observes NotFound.
CommandRunsAtMostOnce ==
  [][\A call \in BagToSet(inflight') :
       CopiesIn(call, inflight') > CopiesIn(call, inflight) =>
          \A other \in BagToSet(inflight) : other.id # call.id]_vars

(***************************************************************************)
(* The approvals under the timeout of execAsync.  The subprocess of line   *)
(* 160 runs with timeout: 30000, so execAsync settles for every waiting    *)
(* call; nothing else is assumed to happen.  The agent of this             *)
(* specification has no API key and routes by keyword.                     *)
(***************************************************************************)

AllIds == { generateCommandId(time, random) : time \in 1..MaxTime,
                                              random \in Suffixes }

AllCalls == [id : AllIds, command : ProposedCommands]

InitKeyword ==
  /\ Init
  /\ hasValidAPI = FALSE

\* A slip: execAsync without the timeout option; a subprocess that does not
\* end keeps its call waiting for ever.
ExecMayHang == \A call \in AllCalls : WF_vars(FALSE /\ ApproveFinishOf(call))

\* Every waiting call settles: its subprocess ends or is killed after 30 s.
ExecSettles == \A call \in AllCalls : WF_vars(ApproveFinishOf(call))

SpecTimeout == InitKeyword /\ [][Next]_vars /\ ExecSettles

Waiting(id) == \E call \in BagToSet(inflight) : call.id = id

\* C20: an approve call that has found its entry and waits for the
\* subprocess completes, and when the calls of an id have completed the id
\* has no entry: no entry stays pending for ever once an approve has been
\* started for it.
ApprovalCompletes ==
  \A id \in AllIds :
     Waiting(id) ~> (~Waiting(id) /\ ~MapHas(pendingCommands, id))

\* An approve call has completed after it had waited for its subprocess
\* while another entry was pending.
ApprovalCompletesWitness ==
  /\ last.op = "approve"
  /\ last.res = "ok"
  /\ inflight = EmptyBag
  /\ ~MapHas(pendingCommands, last.id)
  /\ Len(pendingCommands) = 1

(***************************************************************************)
(* The orchestrator boundary                                               *)
(***************************************************************************)

\* The failures a processQuery run can end in.
QueryFaults ==
  { "UpstreamUnavailable", "ParseError", "ToolNotFound", "InvalidInputFormat",
    "ValidationDenied", "ToolFailure" }

\* C11: every processQuery run hands a string to its caller: the response
\* when nothing failed, and the error description when classification,
\* parsing, tool lookup, validation or the tool failed; no fault escapes.
QueryAlwaysAnswered ==
  last.op = "processQuery" =>
     /\ last.res \in {"response", "error"}
     /\ last.fault \in QueryFaults \cup {None}
     /\ (last.fault # None) <=> (last.res = "error")

\* The tool the language model chose has failed and the run has answered.
QueryAlwaysAnsweredWitness ==
  /\ last.op = "processQuery"
  /\ last.via = "llm"
  /\ last.fault = "ToolFailure"
  /\ last.res = "error"

(***************************************************************************)
(* DocumentTool (src/unnamed/part_001): the strings it takes apart         *)
(***************************************************************************)

\* The index of the first white space character of s at or after i,
\* Len(s) + 1 when there is none.
NextSpace(s, i) ==
  CHOOSE j \in i..(Len(s) + 1) :
    /\ j = Len(s) + 1 \/ IsSpace(s[j])
    /\ \A k \in i..(j - 1) : ~IsSpace(s[k])

\* The index of the first character of s at or after i that is no white
\* space, Len(s) + 1 when there is none.
SkipSpace(s, i) ==
  CHOOSE j \in i..(Len(s) + 1) :
    /\ j = Len(s) + 1 \/ ~IsSpace(s[j])
    /\ \A k \in i..(j - 1) : IsSpace(s[k])

\* String.prototype.split(/\s+/) from index i on: every maximal run of
\* white space separates two pieces, so white space at either end of the
\* string gives an empty piece there, and an empty string gives one empty
\* piece.
RECURSIVE SplitSpaceFrom(_, _)
SplitSpaceFrom(s, i) ==
  LET j == NextSpace(s, i)
  IN  IF j > Len(s) THEN << SubSeq(s, i, Len(s)) >>
      ELSE << SubSeq(s, i, j - 1) >> \o SplitSpaceFrom(s, SkipSpace(s, j))

SplitSpace(s) == SplitSpaceFrom(s, 1)

\* The index of the last "\n" of the white space run that starts at j,
\* `found` when the run holds none.
RECURSIVE LastNewline(_, _, _)
LastNewline(s, j, found) ==
  IF j > Len(s) \/ ~IsSpace(s[j]) THEN found
  ELSE LastNewline(s, j + 1, IF s[j] = "\n" THEN j ELSE found)

\* /\n\s*\n/ matches at i: there is a "\n" at i and another one in the
\* white space that follows it.
BlankAt(s, i) == s[i] = "\n" /\ LastNewline(s, i + 1, 0) # 0

\* The index at or after i where /\n\s*\n/ matches first, Len(s) + 1 when
\* it matches nowhere.
NextBlank(s, i) ==
  CHOOSE j \in i..(Len(s) + 1) :
    /\ j = Len(s) + 1 \/ BlankAt(s, j)
    /\ \A k \in i..(j - 1) : ~BlankAt(s, k)

\* String.prototype.split(/\n\s*\n/) from index i on; a match ends at the
\* last "\n" of the white space run (\s* is greedy).
RECURSIVE SplitBlankFrom(_, _)
SplitBlankFrom(s, i) ==
  LET j == NextBlank(s, i)
  IN  IF j > Len(s) THEN << SubSeq(s, i, Len(s)) >>
      ELSE << SubSeq(s, i, j - 1) >>
             \o SplitBlankFrom(s, LastNewline(s, j + 1, 0) + 1)

SplitBlank(s) == SplitBlankFrom(s, 1)

\* Array.prototype.join
RECURSIVE Join(_, _)
Join(pieces, separator) ==
  IF pieces = << >> THEN << >>
  ELSE IF Len(pieces) = 1 THEN pieces[1]
  ELSE pieces[1] \o separator \o Join(Tail(pieces), separator)

\* String.prototype.substring(0, n)
Substring0(s, n) == SubSeq(s, 1, IF Len(s) < n THEN Len(s) ELSE n)

\* Array.prototype.slice(0, n)
Slice0(a, n) == SubSeq(a, 1, IF Len(a) < n THEN Len(a) ELSE n)

\* String.prototype.endsWith
EndsWith(s, suffix) ==
  /\ Len(suffix) <= Len(s)
  /\ SubSeq(s, Len(s) - Len(suffix) + 1, Len(s)) = suffix

(***************************************************************************)
(* The documents directory: what readdir lists and what readFile gives.    *)
(***************************************************************************)

\* readFile throws for this file.
Unreadable == << "EACCES" >>

TxtSuffix == <<".", "t", "x", "t">>

\* A paragraph of 178 characters that mentions capital once.
LongParagraph == <<"c", "a", "p", "i", "t", "a", "l", " ">> \o [i \in 1..170 |-> "a"]

FileA == <<"a", ".", "t", "x", "t">>

FileB == <<"b", ".", "t", "x", "t">>

FileC == <<"c", ".", "t", "x", "t">>

FileD == <<"d", ".", "t", "x", "t">>

FileE == <<"e", ".", "t", "x", "t">>

FileF == <<"f", ".", "t", "x", "t">>

FileG == <<"g", ".", "m", "d">>

FileNames == { FileA, FileB, FileC, FileD, FileE, FileF, FileG }

\* fs.readFile(file, "utf-8")
FileContent ==
  [name \in FileNames |->
     CASE name = FileA -> <<"C", "a", "p", "i", "t", "a", "l", " ", "m", "a", "r", "k", "e", "t">>
       [] name = FileB -> <<"c", "a", "p", "i", "t", "a", "l", "\n", "\n", "c", "a", "p", "i", "t", "a", "l", "i", "s", "m", " ", "c", "a", "p", "i", "t", "a", "l">>
       [] name = FileC -> <<"z", "z", "z", " ", "b", "o", "o", "k">>
       [] name = FileD -> <<"m", "a", "r", "k", "e", "t", "\n", " ", "\n", "t", "h", "e", " ", "M", "a", "r", "k", "e", "t">>
       [] name = FileE -> Join(<< LongParagraph, LongParagraph, LongParagraph,
                                  LongParagraph >>, <<"\n", "\n">>)
       [] name = FileF -> Unreadable
       [] name = FileG -> <<"c", "a", "p", "i", "t", "a", "l", " ", "m", "a", "r", "k", "e", "t">>]

SearchQueries ==
  { <<"c", "a", "p", "i", "t", "a", "l">>,
    <<"M", "a", "r", "k", "e", "t", " ", "c", "a", "p", "i", "t", "a", "l">>,
    <<" ", "z", "z", "z">>,
    <<"q", "q", "q">>,
    <<"a">>,
    << >> }

(***************************************************************************)
(* DocumentTool._call and calculateRelevance                               *)
(***************************************************************************)

\* Lines 102-114: for every term, the number of words of the content that
\* contain it, summed over the terms in order.
RECURSIVE calculateRelevance(_, _)
calculateRelevance(content, searchTerms) ==
  IF searchTerms = << >> THEN 0
  ELSE LET words == SplitSpace(content)
           matches == Cardinality({ w \in DOMAIN words :
                                      Includes(ToLower(words[w]),
                                               searchTerms[1]) })
       IN  matches + calculateRelevance(content, Tail(searchTerms))

\* Lines 27: query.toLowerCase().split(/\s+/)
SearchTerms(query) == SplitSpace(ToLower(query))

\* Lines 42-49: the first three paragraphs that contain some term.
RelevantParagraphs(content, searchTerms) ==
  Slice0(SelectSeq(SplitBlank(content),
                   LAMBDA paragraph :
                     \E t \in DOMAIN searchTerms :
                        Includes(ToLower(paragraph), searchTerms[t])),
         3)

\* Lines 30-64, one turn of the loop: the results the file adds, none when
\* it cannot be read, scores 0 or has no relevant paragraph.
ScanFile(file, searchTerms) ==
  LET content == FileContent[file]
  IN  IF content = Unreadable THEN << >>
      ELSE IF calculateRelevance(ToLower(content), searchTerms) > 0
              /\ RelevantParagraphs(content, searchTerms) # << >>
      THEN << [source |-> file,
               relevance |-> calculateRelevance(ToLower(content), searchTerms),
               content |-> Join(RelevantParagraphs(content, searchTerms),
                                <<"\n", "\n">>)] >>
      ELSE << >>

\* The turns of the loop for the files and queries of the model, computed
\* once.
Scanned ==
  [file \in FileNames, query \in SearchQueries |->
     ScanFile(file, SearchTerms(query))]

\* Lines 29-65: the loop over the text files, in the order of the listing.
RECURSIVE CollectResults(_, _)
CollectResults(textFiles, query) ==
  IF textFiles = << >> THEN << >>
  ELSE Scanned[textFiles[1], query] \o CollectResults(Tail(textFiles), query)

\* A slip: a result goes in front of the results of equal relevance.
InsertBeforeEqual(sorted, r) ==
  LET k == Cardinality({ i \in DOMAIN sorted :
                           sorted[i].relevance > r.relevance })
  IN  SubSeq(sorted, 1, k) \o << r >> \o SubSeq(sorted, k + 1, Len(sorted))

\* r put into the sorted results after every result that does not compare
\* greater: (a, b) => b.relevance - a.relevance is 0 for equal relevance,
\* and Array.prototype.sort keeps the order of what compares equal.
InsertByRelevance(sorted, r) ==
  LET k == Cardinality({ i \in DOMAIN sorted :
                           sorted[i].relevance >= r.relevance })
  IN  SubSeq(sorted, 1, k) \o << r >> \o SubSeq(sorted, k + 1, Len(sorted))

\* Line 68: results.sort((a, b) => b.relevance - a.relevance)
RECURSIVE SortByRelevance(_)
SortByRelevance(results) ==
  IF results = << >> THEN << >>
  ELSE InsertByRelevance(
         SortByRelevance(SubSeq(results, 1, Len(results) - 1)),
         results[Len(results)])

ExcerptLimit == 500

Ellipsis == <<".", ".", ".">>

\* Lines 89-91
Excerpt(content) ==
  Substring0(content, ExcerptLimit)
    \o (IF Len(content) > ExcerptLimit THEN Ellipsis ELSE << >>)

\* A slip: an empty result list is returned like any other.
AnswerEmptyList(query, topResults) ==
  [kind |-> "results", query |-> query,
   results |-> [i \in DOMAIN topResults |->
                  [source |-> topResults[i].source,
                   relevance |-> topResults[i].relevance,
                   content |-> Excerpt(topResults[i].content)]]]

\* Lines 71-96: the message when nothing was found, else the results.
Answer(query, topResults) ==
  IF Len(topResults) = 0
  THEN [kind |-> "message", query |-> query, results |-> << >>]
  ELSE [kind |-> "results", query |-> query,
        results |-> [i \in DOMAIN topResults |->
                       [source |-> topResults[i].source,
                        relevance |-> topResults[i].relevance,
                        content |-> Excerpt(topResults[i].content)]]]

\* DocumentTool._call({ query }) when readdir lists `files` (or throws, when
\* the directory is not listable).
searchDocuments(listable, files, query) ==
  IF ~listable
  THEN [kind |-> "error", query |-> << >>, results |-> << >>]
  ELSE LET textFiles == SelectSeq(files, LAMBDA f : EndsWith(f, TxtSuffix))
           results == CollectResults(textFiles, query)
           topResults == Slice0(SortByRelevance(results), 3)
       IN  Answer(query, topResults)

(***************************************************************************)
(* The document search on its own: _call applied to one query and one      *)
(* state of the documents directory.                                       *)
(***************************************************************************)

MaxFiles == 4

\* What readdir may list: at most n of the files, each once, in any order.
RECURSIVE Listings(_)
Listings(n) ==
  IF n = 0 THEN { << >> }
  ELSE LET shorter == Listings(n - 1)
       IN  shorter \cup
           { Append(p[1], p[2]) :
               p \in { q \in shorter \X FileNames :
                         /\ Len(q[1]) = n - 1
                         /\ \A i \in DOMAIN q[1] : q[1][i] # q[2] } }

InitSearch ==
  /\ InitStore
  /\ arg \in [query : SearchQueries, listable : {TRUE},
              files : Listings(MaxFiles)]
            \cup [query : SearchQueries, listable : {FALSE}, files : {<< >>}]
  /\ out = << >>

Search ==
  /\ out = << >>
  /\ out' = << searchDocuments(arg.listable, arg.files, arg.query) >>
  /\ UNCHANGED << arg, storeVars, termVars >>

NextSearch == Search

SpecSearch == InitSearch /\ [][NextSearch]_vars

\* The documents of the corpus in a listing: the text files that can be
\* read, by their place in the listing.
Corpus(files) ==
  { i \in DOMAIN files :
      EndsWith(files[i], TxtSuffix) /\ FileContent[files[i]] # Unreadable }

\* The relevance score of every document for every query, computed once.
Relevance ==
  [file \in FileNames, query \in SearchQueries |->
     IF FileContent[file] = Unreadable THEN 0
     ELSE calculateRelevance(ToLower(FileContent[file]), SearchTerms(query))]

\* Some token of the document contains some term of the query, computed
\* once for every document and query.
TokenContainsTerm ==
  [file \in FileNames, query \in SearchQueries |->
     /\ FileContent[file] # Unreadable
     /\ LET tokens == SplitSpace(ToLower(FileContent[file]))
            terms == SearchTerms(query)
        IN  \E w \in DOMAIN tokens, t \in DOMAIN terms :
               Includes(tokens[w], terms[t])]

\* The place in the listing of the file a result names.
PlaceOf(files, source) == CHOOSE i \in DOMAIN files : files[i] = source

Returned(result) == { result.results[i].source : i \in DOMAIN result.results }

\* C12: the search returns at most 3 matches, each a document of the corpus
\* with its relevance score, in non-increasing order of score, matches of
\* equal score in the order of the listing, and no document left out scores
\* higher than a returned one.
TopThreeByRelevance ==
  out # << >> =>
    LET results == out[1].results
        files == arg.files
    IN  /\ Len(results) <= 3
        /\ \A i \in DOMAIN results :
              /\ \E k \in Corpus(files) : files[k] = results[i].source
              /\ results[i].relevance = Relevance[results[i].source, arg.query]
        /\ \A i, j \in DOMAIN results :
              i < j =>
                /\ results[i].relevance >= results[j].relevance
                /\ results[i].relevance = results[j].relevance =>
                     PlaceOf(files, results[i].source)
                       < PlaceOf(files, results[j].source)
        /\ \A k \in Corpus(files), i \in DOMAIN results :
              files[k] \notin Returned(out[1]) =>
                 Relevance[files[k], arg.query] <= results[i].relevance

\* Three matches were returned, two of them of equal score, and a document
\* that scores above 0 was left out.
TopThreeByRelevanceWitness ==
  /\ out # << >>
  /\ Len(out[1].results) = 3
  /\ \E i, j \in DOMAIN out[1].results :
        i < j /\ out[1].results[i].relevance = out[1].results[j].relevance
  /\ \E k \in Corpus(arg.files) :
        /\ arg.files[k] \notin Returned(out[1])
        /\ Relevance[arg.files[k], arg.query] > 0

\* C13: the excerpt of every returned match is at most 500 characters long,
\* the truncation marker included.
ExcerptWithinLimit ==
  out # << >> =>
    \A i \in DOMAIN out[1].results :
       Len(out[1].results[i].content) <= ExcerptLimit

\* C14: a document none of whose tokens contains a term of the query is not
\* among the matches, and when no document of the corpus scores above 0 the
\* answer is the no-results message with the query as it was given, not a
\* list of results.
NoMatchNoResult ==
  (out # << >> /\ arg.listable) =>
    /\ \A k \in Corpus(arg.files) :
          ~TokenContainsTerm[arg.files[k], arg.query] =>
             arg.files[k] \notin Returned(out[1])
    /\ (\A k \in Corpus(arg.files) : Relevance[arg.files[k], arg.query] = 0)
          => /\ out[1].kind = "message"
             /\ out[1].query = arg.query
             /\ out[1].results = << >>

\* Documents were searched and none of them mentions the query.
NoMatchNoResultWitness ==
  /\ out # << >>
  /\ Cardinality(Corpus(arg.files)) >= 2
  /\ \A k \in Corpus(arg.files) : ~TokenContainsTerm[arg.files[k], arg.query]
  /\ out[1].kind = "message"

(***************************************************************************)
(* ChatInterface: the terminal session.  rl.question registers a callback  *)
(* for the next line only; a line starts a handler when such a callback    *)
(* waits, and the handler registers the next one by calling promptUser.    *)
(***************************************************************************)

\* Lines 32-35: promptUser registers a callback unless the session has
\* stopped; `waiting` callbacks were registered before.
promptUser(waiting) == IF isRunning THEN waiting + 1 ELSE waiting

\* start()
TerminalStart ==
  /\ ~isRunning
  /\ ~closed
  /\ isRunning' = TRUE
  /\ question' = question + 1
  /\ UNCHANGED << storeVars, arg, out, closed, queries >>

\* "exit": lines 38-41 and exit(), lines 227-232.
LineExit ==
  /\ question > 0
  /\ isRunning' = FALSE
  /\ closed' = TRUE
  /\ question' = 0
  /\ UNCHANGED << storeVars, arg, out, queries >>

\* "help", "clear" or an empty line: lines 43-47, 55-59, 75-78.
LineHelp ==
  /\ question > 0
  /\ last' = Outcome("help", NoId, "ok", NoCommand)
  /\ question' = promptUser(question - 1)
  /\ UNCHANGED << hasValidAPI, pendingCommands, now, inflight, issuedIds,
                  submitCount, resolved, arg, out, isRunning, closed,
                  queries >>

\* "pending": lines 49-53 and showPendingCommands.
LinePending ==
  /\ question > 0
  /\ listPending
  /\ question' = promptUser(question - 1)
  /\ UNCHANGED << isRunning, closed, queries >>

\* "reject <id>": lines 68-73 and handleCommandRejection.
LineReject ==
  /\ question > 0
  /\ \E id \in RequestIds : rejectCommand(id)
  /\ question' = promptUser(question - 1)
  /\ UNCHANGED << isRunning, closed, queries >>

\* "approve <id>": lines 61-63 and handleCommandApproval up to its await;
\* when executeApprovedCommand throws at once, the catch of line 157 and the
\* promptUser of line 64 follow without a wait.
LineApprove ==
  /\ question > 0
  /\ \E id \in RequestIds :
       /\ executeApprovedCommand(id)
       /\ question' = IF MapHas(pendingCommands, id) THEN question - 1
                      ELSE promptUser(question - 1)
  /\ UNCHANGED << isRunning, closed, queries >>

\* handleCommandApproval after its await, and line 64.
ApprovalHandled ==
  /\ \E call \in BagToSet(inflight) : execSettled(call)
  /\ question' = promptUser(question)
  /\ UNCHANGED << isRunning, closed, queries >>

\* A slip: the next prompt is issued before processUserInput is awaited.
LineQueryPromptsAtOnce ==
  /\ question > 0
  /\ question' = promptUser(question - 1)
  /\ queries' = queries + 1
  /\ UNCHANGED << storeVars, arg, out, isRunning, closed >>

\* Any other line: line 80 and processUserInput up to its await.
LineQuery ==
  /\ question > 0
  /\ question' = question - 1
  /\ queries' = queries + 1
  /\ UNCHANGED << storeVars, arg, out, isRunning, closed >>

\* processUserInput after its await: lines 90-127.
QueryHandled ==
  /\ queries > 0
  /\ processQuery
  /\ queries' = queries - 1
  /\ question' = promptUser(question)
  /\ UNCHANGED << isRunning, closed >>

NextTerminal ==
  \/ TerminalStart
  \/ LineExit
  \/ LineHelp
  \/ LinePending
  \/ LineReject
  \/ LineApprove
  \/ ApprovalHandled
  \/ LineQuery
  \/ QueryHandled
  \/ Tick

SpecTerminal == Init /\ [][NextTerminal]_vars

\* The input handlers in progress: those waiting for processQuery and those
\* waiting for an approved command.
Handlers == queries + BagCardinality(inflight)

\* C17: in a terminal session at most one input handler is in progress; a
\* line is accepted (a callback waits for it) only when none is; when the
\* session runs and no handler is in progress exactly one prompt is out, so
\* every handled input has issued one prompt and no more; and after exit no
\* prompt is out.
OneInputAtATime ==
  /\ Handlers <= 1
  /\ question <= 1
  /\ question = 1 => Handlers = 0
  /\ (isRunning /\ Handlers = 0) => question = 1
  /\ closed => (~isRunning /\ question = 0 /\ Handlers = 0)
  /\ ~isRunning => question = 0

\* A query is being handled, no prompt is out, and earlier inputs have left
\* one entry pending and another one resolved.
OneInputAtATimeWitness ==
  /\ isRunning
  /\ queries = 1
  /\ question = 0
  /\ pendingCommands # << >>
  /\ resolved # {}

====
